---- MODULE Spec2Model ----
(***************************************************************************)
(* Cart -> Order transition of the e-commerce backend: cart aggregate,     *)
(* checkout (createOrder), order status updates and payment               *)
(* reconciliation (confirmPayment, Stripe webhooks, refunds).             *)
(*                                                                         *)
(* Money is kept in integer cents.  A percentage discount value v of the   *)
(* source (0.1, 0.2) is kept as the integer 100*v and applied with \div.   *)
(* Documents are modelled at the level of the TypeScript interfaces: an    *)
(* optional field that is not set is the value None.                       *)
(***************************************************************************)
EXTENDS Integers, Sequences, FiniteSets, TLC

(***************************************************************************)
(* Bounds of the model.                                                    *)
(***************************************************************************)
InitStock == 3      \* stock every counter starts with
MaxQty == 2         \* largest quantity one addItem request asks for
MaxLines == 2       \* most lines a cart is filled with
MaxClock == 2       \* most timestamps (paidAt) handed out
MaxRefundCalls == 2 \* most refund calls the provider receives
MaxIntents == 1     \* most payment intents created
MaxHistory == 3     \* most entries of a status history before updateOrderStatus stops

None == "none"

Users == {"u1", "u2"}
Products == {"p1", "p2"}
VariantIds == {"v1"}
Procs == {"r1", "r2"}
IntentIds == {"pi1", "pi2"}
Sessions == {"s1"}
PayProcs == {"w1", "w2"}

\* what a request finds its cart by: the logged-in user's id, or the sessionId
\* cookie of a guest
CartKeys == Users \cup Sessions

VARIABLES
  products,   \* Product collection: id -> document, or None once deleted
  carts,      \* Cart collection: owner key -> document, or None
  orders,     \* Order collection, in creation order (the index is the _id)
  pc,         \* createOrder requests: where each request stands
  loc,        \* createOrder requests: the handler's local variables
  intents,    \* payment provider: intent id -> intent, or None
  emitted,    \* payment provider: events it has sent (may be re-delivered)
  refundCalls,\* payment provider: number of refunds.create calls received
  clock,      \* the server's clock (new Date())
  resp        \* the response of the last request that was answered

vars == <<products, carts, orders, pc, loc, intents, emitted, refundCalls, clock, resp>>

(***************************************************************************)
(* Helpers on sequences.                                                   *)
(***************************************************************************)
RECURSIVE SumSeq(_)
SumSeq(s) == IF s = <<>> THEN 0 ELSE Head(s) + SumSeq(Tail(s))

Min(a, b) == IF a < b THEN a ELSE b

(***************************************************************************)
(* Product documents.                                                      *)
(***************************************************************************)
\* The catalog the store starts with: p1 is a flat product, p2 is sold by variant.
InitProduct(p) ==
  IF p = "p1"
  THEN [exists |-> TRUE, isActive |-> TRUE, price |-> 1000, inventory |-> InitStock,
        hasVariants |-> FALSE, variants |-> <<>>]
  ELSE [exists |-> TRUE, isActive |-> TRUE, price |-> 2000, inventory |-> 0,
        hasVariants |-> TRUE,
        variants |-> [v \in VariantIds |-> [price |-> 2000, inventory |-> InitStock]]]

\* what findById answers for a product that was deleted
NoProduct ==
  [exists |-> FALSE, isActive |-> FALSE, price |-> 0, inventory |-> 0,
   hasVariants |-> FALSE, variants |-> <<>>]

\* ProductSchema / ProductVariantSchema validators run by save(): inventory min 0
ProductValid(doc) ==
  /\ doc.inventory >= 0
  /\ \A v \in DOMAIN doc.variants : doc.variants[v].inventory >= 0

(***************************************************************************)
(* Cart documents and the Cart methods.                                    *)
(***************************************************************************)
NoDiscount == [code |-> None, type |-> None, value |-> 0]
NoShipping == [id |-> None, price |-> 0]
NoTax == [set |-> FALSE, rate |-> 0, amount |-> 0]

\* applyDiscount's table of codes (value of a percentage in hundredths)
ValidCodes ==
  [WELCOME10 |-> [type |-> "percentage", value |-> 10],
   SAVE20    |-> [type |-> "percentage", value |-> 20],
   FLAT5     |-> [type |-> "fixed", value |-> 500]]

\* setShippingMethod's table of methods
ShippingMethods ==
  [standard |-> [id |-> "standard", price |-> 599],
   express  |-> [id |-> "express", price |-> 1499],
   free     |-> [id |-> "free", price |-> 0]]

\* a Cart.create that stores the caller's key as customer and as sessionId
NewCartWithBoth(owner) ==
  [exists |-> TRUE, customer |-> owner, sessionId |-> owner, items |-> <<>>, subtotal |-> 0,
   discountCode |-> None,
   discount |-> NoDiscount, tax |-> NoTax, shippingMethod |-> NoShipping, total |-> 0]

\* Cart.create({customer}) for a logged-in caller, Cart.create({sessionId}) for a
\* guest: the schema defaults
NewCart(owner) ==
  [exists |-> TRUE,
   customer |-> IF owner \in Users THEN owner ELSE None,
   sessionId |-> IF owner \in Sessions THEN owner ELSE None,
   items |-> <<>>, subtotal |-> 0, discountCode |-> None,
   discount |-> NoDiscount, tax |-> NoTax, shippingMethod |-> NoShipping, total |-> 0]

\* the discount amount calculateTotals takes off a subtotal
DiscountAmount(discount, subtotal) ==
  IF discount = NoDiscount THEN 0
  ELSE IF discount.type = "percentage" THEN (subtotal * discount.value) \div 100
  ELSE Min(discount.value, subtotal)

\* what findOne / findById answers when there is no such cart
NoCart ==
  [exists |-> FALSE, customer |-> None, sessionId |-> None, items |-> <<>>, subtotal |-> 0, discountCode |-> None,
   discount |-> NoDiscount, tax |-> NoTax, shippingMethod |-> NoShipping, total |-> 0]

\* CartSchema.methods.calculateTotals (the save included: the result is what is stored)
CalculateTotals(cart) ==
  LET subtotal == SumSeq([i \in 1..Len(cart.items) |-> cart.items[i].subtotal])
      discountAmount == DiscountAmount(cart.discount, subtotal)
      taxAmount == IF cart.tax = NoTax THEN 0
                   ELSE ((subtotal - discountAmount) * cart.tax.rate) \div 100
      shippingCost == IF cart.shippingMethod = NoShipping THEN 0
                      ELSE cart.shippingMethod.price
  IN [cart EXCEPT !.subtotal = subtotal,
                  !.tax = IF cart.tax = NoTax THEN NoTax
                          ELSE [set |-> TRUE, rate |-> cart.tax.rate, amount |-> taxAmount],
                  !.total = subtotal - discountAmount + taxAmount + shippingCost]

\* CartSchema.methods.addItem: [err, cart]; err is None when the item was added
CartAddItem(cart, productId, quantity, variantId) ==
  LET product == products[productId]
      useVariant == variantId # None /\ product.hasVariants
      inventory == IF useVariant THEN product.variants[variantId].inventory
                   ELSE product.inventory
      Same(item) == IF variantId # None
                    THEN item.product = productId /\ item.variant = variantId
                    ELSE item.product = productId /\ item.variant = None
      existingItemIndex ==
        IF \E i \in 1..Len(cart.items) : Same(cart.items[i])
        THEN CHOOSE i \in 1..Len(cart.items) :
               Same(cart.items[i]) /\ \A j \in 1..(i - 1) : ~Same(cart.items[j])
        ELSE 0
      newQuantity == cart.items[existingItemIndex].quantity + quantity
      price == IF useVariant THEN product.variants[variantId].price ELSE product.price
      newItem == [product |-> productId, variant |-> IF useVariant THEN variantId ELSE None,
                  price |-> price, quantity |-> quantity, subtotal |-> price * quantity,
                  maxQuantity |-> inventory]
  IN IF ~product.exists THEN [err |-> "ProductNotFound", cart |-> cart]
     ELSE IF ~product.isActive THEN [err |-> "ProductUnavailable", cart |-> cart]
     ELSE IF variantId # None /\ product.hasVariants /\ variantId \notin DOMAIN product.variants
       THEN [err |-> "VariantNotFound", cart |-> cart]
     ELSE IF inventory < quantity THEN [err |-> "InsufficientStock", cart |-> cart]
     ELSE IF existingItemIndex > 0
       THEN IF newQuantity > inventory THEN [err |-> "InsufficientStock", cart |-> cart]
            ELSE [err |-> None,
                  cart |-> CalculateTotals(
                    [cart EXCEPT !.items[existingItemIndex] =
                       [@ EXCEPT !.quantity = newQuantity,
                                 !.subtotal = cart.items[existingItemIndex].price * newQuantity,
                                 !.maxQuantity = inventory]])]
     ELSE [err |-> None,
           cart |-> CalculateTotals([cart EXCEPT !.items = Append(@, newItem)])]

\* CartSchema.methods.applyDiscount
CartApplyDiscount(cart, code) ==
  IF code \notin DOMAIN ValidCodes THEN [err |-> "InvalidDiscountCode", cart |-> cart]
  ELSE [err |-> None,
        cart |-> CalculateTotals(
          [cart EXCEPT !.discountCode = code,
                       !.discount = [code |-> code, type |-> ValidCodes[code].type,
                                     value |-> ValidCodes[code].value]])]

\* CartSchema.methods.setShippingMethod
CartSetShippingMethod(cart, methodId) ==
  IF methodId \notin DOMAIN ShippingMethods
  THEN [err |-> "InvalidShippingMethod", cart |-> cart]
  ELSE [err |-> None,
        cart |-> CalculateTotals([cart EXCEPT !.shippingMethod = ShippingMethods[methodId]])]

\* a removeItem that leaves the stored totals as they are
CartRemoveItemStale(cart, idx) ==
  [err |-> None,
   cart |-> [cart EXCEPT !.items = IF idx \in 1..Len(@)
                                  THEN SubSeq(@, 1, idx - 1) \o SubSeq(@, idx + 1, Len(@))
                                  ELSE @]]

\* CartSchema.methods.removeItem; a line is named by its place idx in items (its
\* _id), and a place that holds no line names no line
CartRemoveItem(cart, idx) ==
  [err |-> None,
   cart |-> CalculateTotals(
     [cart EXCEPT !.items = IF idx \in 1..Len(@)
                            THEN SubSeq(@, 1, idx - 1) \o SubSeq(@, idx + 1, Len(@))
                            ELSE @])]

\* CartSchema.methods.updateItemQuantity
CartUpdateItemQuantity(cart, idx, quantity) ==
  IF idx \notin 1..Len(cart.items) THEN [err |-> "ItemNotFound", cart |-> cart]
  ELSE IF quantity <= 0 THEN CartRemoveItem(cart, idx)
  ELSE IF quantity > cart.items[idx].maxQuantity
    THEN [err |-> "InsufficientStock", cart |-> cart]
  ELSE [err |-> None,
        cart |-> CalculateTotals(
          [cart EXCEPT !.items[idx] =
             [@ EXCEPT !.quantity = quantity,
                       !.subtotal = cart.items[idx].price * quantity]])]

\* CartSchema.methods.clearCart
CartClearCart(cart) ==
  [cart EXCEPT !.items = <<>>, !.subtotal = 0, !.discount = NoDiscount,
               !.discountCode = None, !.tax = NoTax, !.shippingMethod = NoShipping,
               !.total = 0]


(***************************************************************************)
(* Order documents.                                                        *)
(***************************************************************************)
PadWidth == 5

\* String(n): the decimal digits of n
RECURSIVE Digits(_)
Digits(n) == IF n < 10 THEN <<n>> ELSE Append(Digits(n \div 10), n % 10)

\* String.prototype.padStart(w, '0')
RECURSIVE PadStart(_, _)
PadStart(ds, w) == IF Len(ds) >= w THEN ds ELSE PadStart(<<0>> \o ds, w)

\* parseInt(s, 10) of a string of digits
RECURSIVE ParseInt(_)
ParseInt(ds) ==
  IF ds = <<>> THEN 0 ELSE 10 * ParseInt(SubSeq(ds, 1, Len(ds) - 1)) + ds[Len(ds)]

\* a < b as strings (the order of sort: { orderNumber: -1 })
RECURSIVE StrLess(_, _)
StrLess(a, b) ==
  IF b = <<>> THEN FALSE
  ELSE IF a = <<>> THEN TRUE
  ELSE IF Head(a) # Head(b) THEN Head(a) < Head(b)
  ELSE StrLess(Tail(a), Tail(b))

\* OrderSchema.statics.generateOrderNumber, within one year+month prefix:
\* the sequence part (the digits after the prefix) of the number it returns
GenerateOrderNumber(ords) ==
  LET Last == CHOOSE i \in 1..Len(ords) :
                \A j \in 1..Len(ords) : ~StrLess(ords[i].orderNumber, ords[j].orderNumber)
      nextNumber == IF ords = <<>> THEN 1 ELSE ParseInt(ords[Last].orderNumber) + 1
  IN PadStart(Digits(nextNumber), PadWidth)

\* a save whose hook records nothing in the status history
OrderPreSaveNoHistory(orig, doc) ==
  doc

\* OrderSchema.pre('save') for a document that was loaded as orig and is saved as doc
OrderPreSave(orig, doc) ==
  IF doc.status # orig.status
  THEN [doc EXCEPT !.statusHistory = Append(@, [status |-> doc.status, note |-> None])]
  ELSE doc

\* the document Order.create stores for a checkout of cart (pre('save') of a new
\* document included): line items, payment object and totals copied from the cart
NewOrder(orderNumber, user, cart, shipPrice) ==
  [orderNumber |-> orderNumber,
   customer |-> user,
   items |-> [i \in 1..Len(cart.items) |->
                [product |-> cart.items[i].product, variant |-> cart.items[i].variant,
                 price |-> cart.items[i].price, quantity |-> cart.items[i].quantity,
                 subtotal |-> cart.items[i].price * cart.items[i].quantity]],
   payment |-> [status |-> "pending", transactionId |-> None, amount |-> cart.total,
                paidAt |-> 0],
   subtotal |-> cart.subtotal,
   shippingCost |-> shipPrice,
   tax |-> cart.tax,
   discount |-> cart.discount,
   total |-> cart.total,
   status |-> "pending",
   statusHistory |-> <<[status |-> "pending", note |-> "Order created"]>>]

(***************************************************************************)
(* createOrder, one step per awaited database call.                        *)
(***************************************************************************)
IdleLoc ==
  [user |-> None, cartId |-> None, cart |-> NoCart, shipPrice |-> 0, idx |-> 0,
   orderNumber |-> <<>>, order |-> 0, product |-> NoProduct, result |-> None]

\* the request is answered: the handler's locals are gone, the answer stays
Answer(p, result) ==
  /\ pc' = [pc EXCEPT ![p] = "done"]
  /\ loc' = [loc EXCEPT ![p] = [IdleLoc EXCEPT !.user = loc[p].user,
                                               !.cartId = loc[p].cartId,
                                               !.order = loc[p].order,
                                               !.result = result]]

\* the stock counter a line draws on: the variant's when the line names one
LineInventory(product, item) ==
  IF item.variant # None THEN product.variants[item.variant].inventory
  ELSE product.inventory

\* lines 443-467: load the cart, check owner and emptiness
CreateOrderLoad(p, u, c, sp) ==
  /\ pc[p] = "idle"
  /\ UNCHANGED <<products, carts, orders, intents, emitted, refundCalls, clock, resp>>
  /\ LET cart == carts[c]
         result == IF ~cart.exists THEN "NotFound"
                   ELSE IF cart.customer # None /\ cart.customer # u THEN "Forbidden"
                   ELSE IF Len(cart.items) = 0 THEN "EmptyCart"
                   ELSE None
     IN IF result # None
        THEN /\ pc' = [pc EXCEPT ![p] = "done"]
             /\ loc' = [loc EXCEPT ![p] = [IdleLoc EXCEPT !.user = u, !.cartId = c,
                                                          !.result = result]]
        ELSE /\ pc' = [pc EXCEPT ![p] = "check"]
             /\ loc' = [loc EXCEPT ![p] = [IdleLoc EXCEPT !.user = u, !.cartId = c,
                                             !.cart = cart, !.shipPrice = sp, !.idx = 1]]

\* an inventory check loop that takes each line's quantity as it passes the line
CreateOrderCheckReserving(p) ==
  /\ pc[p] = "check"
  /\ UNCHANGED <<carts, orders, intents, emitted, refundCalls, clock, resp>>
  /\ LET item == loc[p].cart.items[loc[p].idx]
         product == products[item.product]
         result == IF ~product.exists THEN "ProductNotFound"
                   ELSE IF ~product.isActive THEN "ProductUnavailable"
                   ELSE IF item.variant # None /\ item.variant \notin DOMAIN product.variants
                     THEN "VariantNotFound"
                   ELSE IF LineInventory(product, item) < item.quantity
                     THEN "InsufficientStock"
                   ELSE None
     IN IF result # None
        THEN /\ Answer(p, result)
             /\ UNCHANGED products
        ELSE /\ products' = [products EXCEPT ![item.product] =
                               IF item.variant # None
                               THEN [@ EXCEPT !.variants[item.variant].inventory =
                                                 @ - item.quantity]
                               ELSE [@ EXCEPT !.inventory = @ - item.quantity]]
             /\ IF loc[p].idx < Len(loc[p].cart.items)
                THEN /\ loc' = [loc EXCEPT ![p].idx = @ + 1]
                     /\ UNCHANGED pc
                ELSE /\ loc' = [loc EXCEPT ![p].idx = 0]
                     /\ pc' = [pc EXCEPT ![p] = "number"]

\* lines 469-497: one turn of the inventory check loop
CreateOrderCheck(p) ==
  /\ pc[p] = "check"
  /\ UNCHANGED <<products, carts, orders, intents, emitted, refundCalls, clock, resp>>
  /\ LET item == loc[p].cart.items[loc[p].idx]
         product == products[item.product]
         result == IF ~product.exists THEN "ProductNotFound"
                   ELSE IF ~product.isActive THEN "ProductUnavailable"
                   ELSE IF item.variant # None /\ item.variant \notin DOMAIN product.variants
                     THEN "VariantNotFound"
                   ELSE IF LineInventory(product, item) < item.quantity
                     THEN "InsufficientStock"
                   ELSE None
     IN IF result # None THEN Answer(p, result)
        ELSE IF loc[p].idx < Len(loc[p].cart.items)
          THEN /\ loc' = [loc EXCEPT ![p].idx = @ + 1]
               /\ UNCHANGED pc
        ELSE /\ loc' = [loc EXCEPT ![p].idx = 0]
             /\ pc' = [pc EXCEPT ![p] = "number"]

\* line 512: Order.generateOrderNumber()
CreateOrderNumber(p) ==
  /\ pc[p] = "number"
  /\ UNCHANGED <<products, carts, orders, intents, emitted, refundCalls, clock, resp>>
  /\ loc' = [loc EXCEPT ![p].orderNumber = GenerateOrderNumber(orders)]
  /\ pc' = [pc EXCEPT ![p] = "create"]

\* lines 514-546: Order.create; the unique index on orderNumber rejects a duplicate
CreateOrderCreate(p) ==
  /\ pc[p] = "create"
  /\ UNCHANGED <<products, carts, intents, emitted, refundCalls, clock, resp>>
  /\ IF \E i \in 1..Len(orders) : orders[i].orderNumber = loc[p].orderNumber
     THEN /\ Answer(p, "DuplicateKey")
          /\ UNCHANGED orders
     ELSE /\ orders' = Append(orders, NewOrder(loc[p].orderNumber, loc[p].user,
                                                loc[p].cart, loc[p].shipPrice))
          /\ loc' = [loc EXCEPT ![p].order = Len(orders) + 1, ![p].idx = 1]
          /\ pc' = [pc EXCEPT ![p] = "decRead"]

\* where the inventory loop goes after the line at idx
AfterLine(p) ==
  IF loc[p].idx < Len(loc[p].cart.items)
  THEN /\ loc' = [loc EXCEPT ![p].idx = @ + 1, ![p].product = NoProduct]
       /\ pc' = [pc EXCEPT ![p] = "decRead"]
  ELSE /\ loc' = [loc EXCEPT ![p].idx = 0, ![p].product = NoProduct]
       /\ pc' = [pc EXCEPT ![p] = "clear"]

\* line 550: Product.findById of the line at idx; a missing product is skipped
CreateOrderDecRead(p) ==
  /\ pc[p] = "decRead"
  /\ UNCHANGED <<products, carts, orders, intents, emitted, refundCalls, clock, resp>>
  /\ LET product == products[loc[p].cart.items[loc[p].idx].product]
     IN IF product.exists
        THEN /\ loc' = [loc EXCEPT ![p].product = product]
             /\ pc' = [pc EXCEPT ![p] = "decSave"]
        ELSE AfterLine(p)

\* the product document after lines 553-561 took the line's quantity off it
Decremented(product, item) ==
  IF item.variant # None
  THEN IF item.variant \in DOMAIN product.variants
       THEN [product EXCEPT !.variants[item.variant].inventory = @ - item.quantity]
       ELSE product
  ELSE [product EXCEPT !.inventory = @ - item.quantity]

\* what product.save() writes: the counter the handler changed, into the stored document
SavedProduct(stored, doc, item) ==
  IF item.variant # None
  THEN IF item.variant \in DOMAIN doc.variants /\ item.variant \in DOMAIN stored.variants
       THEN [stored EXCEPT !.variants[item.variant].inventory =
                                doc.variants[item.variant].inventory]
       ELSE stored
  ELSE [stored EXCEPT !.inventory = doc.inventory]

\* lines 553-563: decrement the loaded document and save it; save() validates
\* (inventory min 0) and fails when the document is no longer stored
CreateOrderDecSave(p) ==
  /\ pc[p] = "decSave"
  /\ UNCHANGED <<carts, orders, intents, emitted, refundCalls, clock, resp>>
  /\ LET item == loc[p].cart.items[loc[p].idx]
         doc == Decremented(loc[p].product, item)
     IN IF ~ProductValid(doc)
        THEN /\ Answer(p, "ValidationError")
             /\ UNCHANGED products
        ELSE IF ~products[item.product].exists
        THEN /\ Answer(p, "DocumentNotFound")
             /\ UNCHANGED products
        ELSE /\ products' = [products EXCEPT ![item.product] = SavedProduct(@, doc, item)]
             /\ AfterLine(p)

\* line 568: cart.clearCart() on the cart document loaded at line 449, then 201
CreateOrderClear(p) ==
  /\ pc[p] = "clear"
  /\ UNCHANGED <<products, orders, intents, emitted, refundCalls, clock, resp>>
  /\ carts' = [carts EXCEPT ![loc[p].cartId] = CartClearCart(loc[p].cart)]
  /\ Answer(p, "ok")


(***************************************************************************)
(* Cart controller: each handler is one request; a request that fails      *)
(* leaves the cart as it was.                                              *)
(***************************************************************************)
\* addItemToCart for a logged-in user: find or create the cart, then cart.addItem
AddItemToCart(u, productId, quantity, variantId) ==
  /\ UNCHANGED <<products, orders, pc, loc, intents, emitted, refundCalls, clock, resp>>
  /\ LET cart == IF carts[u].exists THEN carts[u] ELSE NewCart(u)
         r == CartAddItem(cart, productId, quantity, variantId)
     IN /\ Len(r.cart.items) <= MaxLines
        /\ carts' = [carts EXCEPT ![u] = r.cart]

\* applyDiscount: 404 without a cart, 400 when cart.applyDiscount throws
ApplyDiscount(u, code) ==
  /\ UNCHANGED <<products, orders, pc, loc, intents, emitted, refundCalls, clock, resp>>
  /\ IF ~carts[u].exists
     THEN UNCHANGED carts
     ELSE LET r == CartApplyDiscount(carts[u], code)
          IN /\ carts' = [carts EXCEPT ![u] = r.cart]

\* setShippingMethod: 404 without a cart, 400 when cart.setShippingMethod throws
SetShippingMethod(u, methodId) ==
  /\ UNCHANGED <<products, orders, pc, loc, intents, emitted, refundCalls, clock, resp>>
  /\ IF ~carts[u].exists
     THEN UNCHANGED carts
     ELSE LET r == CartSetShippingMethod(carts[u], methodId)
          IN /\ carts' = [carts EXCEPT ![u] = r.cart]

\* updateCartItem: 400 unless quantity > 0, 404 without a cart, then
\* cart.updateItemQuantity
UpdateCartItem(u, idx, quantity) ==
  /\ UNCHANGED <<products, orders, pc, loc, intents, emitted, refundCalls, clock, resp>>
  /\ IF quantity <= 0 \/ ~carts[u].exists
     THEN UNCHANGED carts
     ELSE carts' = [carts EXCEPT ![u] = CartUpdateItemQuantity(@, idx, quantity).cart]

\* removeCartItem: 404 without a cart, then cart.removeItem
RemoveCartItem(u, idx) ==
  /\ UNCHANGED <<products, orders, pc, loc, intents, emitted, refundCalls, clock, resp>>
  /\ IF ~carts[u].exists
     THEN UNCHANGED carts
     ELSE carts' = [carts EXCEPT ![u] = CartRemoveItem(@, idx).cart]

\* clearCart: 404 without a cart, then cart.clearCart
ClearCart(u) ==
  /\ UNCHANGED <<products, orders, pc, loc, intents, emitted, refundCalls, clock, resp>>
  /\ IF ~carts[u].exists
     THEN UNCHANGED carts
     ELSE carts' = [carts EXCEPT ![u] = CartClearCart(@)]

\* getCart: the caller's cart, created when there is none
GetCart(u) ==
  /\ UNCHANGED <<products, orders, pc, loc, intents, emitted, refundCalls, clock, resp>>
  /\ IF carts[u].exists
     THEN UNCHANGED carts
     ELSE carts' = [carts EXCEPT ![u] = NewCart(u)]

\* mergeCart's loop (lines 376-383): addItem on the user cart for each guest line
\* from the k-th on; the first addItem that throws ends the request, with what
\* the earlier ones saved
RECURSIVE CartMergeItems(_, _, _)
CartMergeItems(cart, items, k) ==
  IF k > Len(items) THEN [err |-> None, cart |-> cart]
  ELSE LET r == CartAddItem(cart, items[k].product, items[k].quantity, items[k].variant)
       IN IF r.err # None THEN [err |-> r.err, cart |-> cart]
          ELSE CartMergeItems(r.cart, items, k + 1)

\* a mergeCart that leaves the guest cart in the collection
MergeCartKeepingGuest(u, sessionId) ==
  /\ UNCHANGED <<products, orders, pc, loc, intents, emitted, refundCalls, clock>>
  /\ carts[sessionId].exists /\ Len(carts[sessionId].items) > 0
  /\ LET userCart == IF carts[u].exists THEN carts[u] ELSE NewCart(u)
         r == CartMergeItems(userCart, carts[sessionId].items, 1)
     IN /\ Len(r.cart.items) <= MaxLines
        /\ carts' = [carts EXCEPT ![u] = r.cart]
        /\ resp' = IF r.err # None THEN r.err ELSE "merged"

\* mergeCart: nothing to do without a guest cart that has lines; the user cart is
\* found or created, the guest lines are added to it, the guest cart's discount
\* code and shipping method are applied to it (a failure of either is logged and
\* passed over), and the guest cart is deleted
MergeCart(u, sessionId) ==
  /\ UNCHANGED <<products, orders, pc, loc, intents, emitted, refundCalls, clock>>
  /\ LET guestCart == carts[sessionId]
         userCart == IF carts[u].exists THEN carts[u] ELSE NewCart(u)
         r == CartMergeItems(userCart, guestCart.items, 1)
         discounted == IF guestCart.discount # NoDiscount /\ guestCart.discountCode # None
                       THEN CartApplyDiscount(r.cart, guestCart.discountCode).cart
                       ELSE r.cart
         shipped == IF guestCart.shippingMethod # NoShipping
                    THEN CartSetShippingMethod(discounted, guestCart.shippingMethod.id).cart
                    ELSE discounted
     IN IF ~guestCart.exists \/ Len(guestCart.items) = 0
        THEN /\ resp' = "NoGuestCart"
             /\ UNCHANGED carts
        ELSE /\ Len(r.cart.items) <= MaxLines
             /\ IF r.err # None
                THEN /\ resp' = r.err
                     /\ carts' = [carts EXCEPT ![u] = r.cart]
                ELSE /\ resp' = "merged"
                     /\ carts' = [carts EXCEPT ![u] = shipped, ![sessionId] = NoCart]

(***************************************************************************)
(* Product administration.                                                 *)
(***************************************************************************)
\* updateProduct with body {price}: findByIdAndUpdate
UpdateProductPrice(productId, price) ==
  /\ UNCHANGED <<carts, orders, pc, loc, intents, emitted, refundCalls, clock, resp>>
  /\ IF products[productId].exists
     THEN /\ products' = [products EXCEPT ![productId].price = price]
     ELSE UNCHANGED products

\* updateProduct with body {isActive}: findByIdAndUpdate
UpdateProductActive(productId, isActive) ==
  /\ UNCHANGED <<carts, orders, pc, loc, intents, emitted, refundCalls, clock, resp>>
  /\ IF products[productId].exists
     THEN /\ products' = [products EXCEPT ![productId].isActive = isActive]
     ELSE UNCHANGED products

\* updateProductInventory: findByIdAndUpdate({inventory})
UpdateProductInventory(productId, inventory) ==
  /\ UNCHANGED <<carts, orders, pc, loc, intents, emitted, refundCalls, clock, resp>>
  /\ IF inventory < 0
     THEN UNCHANGED products
     ELSE IF products[productId].exists
     THEN /\ products' = [products EXCEPT ![productId].inventory = inventory]
     ELSE UNCHANGED products

\* deleteProduct: findByIdAndDelete
DeleteProduct(productId) ==
  /\ UNCHANGED <<carts, orders, pc, loc, intents, emitted, refundCalls, clock, resp>>
  /\ IF products[productId].exists
     THEN /\ products' = [products EXCEPT ![productId] = NoProduct]
     ELSE UNCHANGED products

(***************************************************************************)
(* Order status update (admin).                                            *)
(***************************************************************************)
\* lines 663-679: the loop that puts every line's quantity back, each turn a
\* findById, an increment and a save
RECURSIVE RestoreInventory(_, _)
RestoreInventory(prods, items) ==
  IF items = <<>> THEN prods
  ELSE LET item == Head(items)
           product == prods[item.product]
           doc == IF item.variant # None
                  THEN IF item.variant \in DOMAIN product.variants
                       THEN [product EXCEPT !.variants[item.variant].inventory =
                                                 @ + item.quantity]
                       ELSE product
                  ELSE [product EXCEPT !.inventory = @ + item.quantity]
       IN RestoreInventory(IF product.exists THEN [prods EXCEPT ![item.product] = doc]
                           ELSE prods,
                           Tail(items))

\* updateOrderStatus: the status is assigned (line 659) before the cancellation
\* test (line 662) reads it
UpdateOrderStatus(o, status) ==
  /\ UNCHANGED <<carts, pc, loc, intents, emitted, refundCalls, clock>>
  /\ LET order == [orders[o] EXCEPT !.status = status]
     IN /\ products' = IF status = "cancelled" /\ order.status # "cancelled"
                       THEN RestoreInventory(products, order.items)
                       ELSE products
        /\ orders' = [orders EXCEPT ![o] = OrderPreSave(orders[o], order)]
        /\ resp' = "ok"

(***************************************************************************)
(* Payment provider (Stripe), as far as the handlers see it.               *)
(***************************************************************************)
\* paymentIntents.create answers with an intent id that is not in use
IntentSeq == <<"pi1", "pi2">>
FreshIntent ==
  IntentSeq[CHOOSE n \in 1..Len(IntentSeq) :
              /\ ~intents[IntentSeq[n]].exists
              /\ \A m \in 1..(n - 1) : intents[IntentSeq[m]].exists]

\* the customer's payment attempt is declined: the intent can be tried again
ProviderPaymentFailed(i) ==
  /\ intents[i].exists /\ intents[i].status = "requires_payment_method"
  /\ emitted' = emitted \cup {<<"payment_intent.payment_failed", i>>}
  /\ UNCHANGED <<products, carts, orders, pc, loc, intents, refundCalls, clock, resp>>

\* the customer's payment attempt goes through
ProviderPaymentSucceeded(i) ==
  /\ intents[i].exists /\ intents[i].status = "requires_payment_method"
  /\ intents' = [intents EXCEPT ![i].status = "succeeded"]
  /\ emitted' = emitted \cup {<<"payment_intent.succeeded", i>>}
  /\ UNCHANGED <<products, carts, orders, pc, loc, refundCalls, clock, resp>>

\* the provider sends an event of a type handleWebhook has no case for
ProviderOtherEvent(i) ==
  /\ intents[i].exists
  /\ emitted' = emitted \cup {<<"payment_intent.created", i>>}
  /\ UNCHANGED <<products, carts, orders, pc, loc, intents, refundCalls, clock, resp>>

\* the intent is abandoned
ProviderPaymentCanceled(i) ==
  /\ intents[i].exists /\ intents[i].status = "requires_payment_method"
  /\ intents' = [intents EXCEPT ![i].status = "canceled"]
  /\ emitted' = emitted \cup {<<"payment_intent.canceled", i>>}
  /\ UNCHANGED <<products, carts, orders, pc, loc, refundCalls, clock, resp>>

(***************************************************************************)
(* Payment controller.                                                     *)
(***************************************************************************)
\* createPaymentIntent; o = 0 stands for a request without orderId, whose intent
\* carries the metadata orderId 'pending'
CreatePaymentIntent(u, amount, o) ==
  /\ UNCHANGED <<products, carts, orders, pc, loc, emitted, refundCalls, clock>>
  /\ IF amount <= 0
     THEN /\ resp' = "InvalidAmount"
          /\ UNCHANGED intents
     ELSE IF o # 0 /\ orders[o].customer # u
     THEN /\ resp' = "Forbidden"
          /\ UNCHANGED intents
     ELSE IF o # 0 /\ orders[o].payment.status = "completed"
     THEN /\ resp' = "AlreadyPaid"
          /\ UNCHANGED intents
     ELSE /\ \E i \in IntentIds : ~intents[i].exists
          /\ intents' = [intents EXCEPT ![FreshIntent] =
                           [exists |-> TRUE, orderId |-> o, amount |-> amount,
                            status |-> "requires_payment_method"]]
          /\ resp' = "ok"

\* a refund that also writes the order's total off
RefundedReversingTotal(order) ==
  [order EXCEPT !.payment.status = "refunded", !.status = "refunded", !.total = 0]

\* lines 342-343 and 283-284: the order marked refunded
Refunded(order) ==
  [order EXCEPT !.payment.status = "refunded", !.status = "refunded"]

\* lines 121-126 and 233-237: the order marked paid by intent i at time now
MarkPaid(order, i, now) ==
  [order EXCEPT !.payment.status = "completed",
                !.payment.transactionId = i,
                !.payment.paidAt = now,
                !.status = "processing"]

\* confirmPayment
ConfirmPayment(u, i, o) ==
  /\ UNCHANGED <<products, carts, pc, loc, intents, emitted, refundCalls>>
  /\ IF ~intents[i].exists
     THEN /\ resp' = "ProviderError"
          /\ UNCHANGED <<orders, clock>>
     ELSE IF intents[i].status # "succeeded"
     THEN /\ resp' = "PaymentNotSucceeded"
          /\ UNCHANGED <<orders, clock>>
     ELSE IF orders[o].customer # u
     THEN /\ resp' = "Forbidden"
          /\ UNCHANGED <<orders, clock>>
     ELSE IF orders[o].payment.status = "completed"
     THEN /\ resp' = "ok"
          /\ UNCHANGED <<orders, clock>>
     ELSE /\ clock < MaxClock
          /\ clock' = clock + 1
          /\ orders' = [orders EXCEPT ![o] =
                          OrderPreSave(@, MarkPaid(@, i, clock + 1))]
          /\ resp' = "ok"

\* a 'payment_intent.succeeded' case without the test of line 232
WebhookSucceededUnguarded(i) ==
  LET o == intents[i].orderId
  IN /\ clock < MaxClock
     /\ clock' = clock + 1
     /\ orders' = [orders EXCEPT ![o] = OrderPreSave(@, MarkPaid(@, i, clock + 1))]

\* handleWebhook, case 'payment_intent.succeeded'
WebhookSucceeded(i) ==
  LET o == intents[i].orderId
  IN IF orders[o].payment.status # "completed"
     THEN /\ clock < MaxClock
          /\ clock' = clock + 1
          /\ orders' = [orders EXCEPT ![o] =
                          OrderPreSave(@, MarkPaid(@, i, clock + 1))]
     ELSE UNCHANGED <<orders, clock>>

\* a failure case that also cancels the order
WebhookFailedCancelling(i) ==
  LET o == intents[i].orderId
  IN /\ orders' = [orders EXCEPT ![o] =
                     OrderPreSave(@, [@ EXCEPT !.payment.status = "failed",
                                               !.status = "cancelled"])]
     /\ UNCHANGED clock

\* handleWebhook, cases 'payment_intent.payment_failed' and 'payment_intent.canceled'
WebhookFailed(i) ==
  LET o == intents[i].orderId
  IN /\ orders' = [orders EXCEPT ![o] =
                     OrderPreSave(@, [@ EXCEPT !.payment.status = "failed"])]
     /\ UNCHANGED clock

\* handleWebhook, case 'charge.refunded': findOne by payment.transactionId
WebhookRefunded(i) ==
  /\ UNCHANGED clock
  /\ IF \E o \in 1..Len(orders) : orders[o].payment.transactionId = i
     THEN LET o == CHOOSE o \in 1..Len(orders) :
                     /\ orders[o].payment.transactionId = i
                     /\ \A k \in 1..(o - 1) : orders[k].payment.transactionId # i
          IN orders' = [orders EXCEPT ![o] =
                          OrderPreSave(@, Refunded(@))]
     ELSE UNCHANGED orders

(***************************************************************************)
(* confirmPayment and the 'payment_intent.succeeded' case step by step: the *)
(* order is loaded and tested, and saved by a later step, so that two      *)
(* requests for one order interleave.                                      *)
(***************************************************************************)
\* the locals of a payment request: the order it loaded, the status that order
\* had when loaded, and the intent it is about
PayIdle == [order |-> 0, intent |-> None, loadedStatus |-> None]

\* confirmPayment up to 'await order.save()': the intent is retrieved, the
\* order loaded and tested, the new values assigned to the loaded document
ConfirmPaymentLoad(p, u, i, o) ==
  /\ pc[p] = "idle"
  /\ UNCHANGED <<products, carts, orders, intents, emitted, refundCalls, clock>>
  /\ IF ~intents[i].exists \/ intents[i].status # "succeeded" \/ orders[o].customer # u
     THEN /\ resp' = IF ~intents[i].exists THEN "ProviderError"
                     ELSE IF intents[i].status # "succeeded" THEN "PaymentNotSucceeded"
                     ELSE "Forbidden"
          /\ pc' = [pc EXCEPT ![p] = "done"]
          /\ UNCHANGED loc
     ELSE IF orders[o].payment.status = "completed"
     THEN /\ resp' = "ok"
          /\ pc' = [pc EXCEPT ![p] = "done"]
          /\ UNCHANGED loc
     ELSE /\ pc' = [pc EXCEPT ![p] = "save"]
          /\ loc' = [loc EXCEPT ![p] = [order |-> o, intent |-> i,
                                        loadedStatus |-> orders[o].status]]
          /\ UNCHANGED resp

\* handleWebhook, case 'payment_intent.succeeded', up to 'await order.save()'
WebhookSucceededLoad(p, i) ==
  /\ pc[p] = "idle"
  /\ <<"payment_intent.succeeded", i>> \in emitted
  /\ UNCHANGED <<products, carts, orders, intents, emitted, refundCalls, clock>>
  /\ IF intents[i].orderId = 0
     THEN /\ resp' = "WebhookError"
          /\ pc' = [pc EXCEPT ![p] = "done"]
          /\ UNCHANGED loc
     ELSE IF orders[intents[i].orderId].payment.status = "completed"
     THEN /\ resp' = "received"
          /\ pc' = [pc EXCEPT ![p] = "done"]
          /\ UNCHANGED loc
     ELSE /\ pc' = [pc EXCEPT ![p] = "save"]
          /\ loc' = [loc EXCEPT ![p] = [order |-> intents[i].orderId, intent |-> i,
                                        loadedStatus |->
                                          orders[intents[i].orderId].status]]
          /\ UNCHANGED resp

\* 'await order.save()' of either request: the paths the request assigned are
\* written to the stored order, and the hook's entry is pushed onto the stored
\* history when the request changed the status it had loaded
PaymentSave(p) ==
  LET o == loc[p].order
  IN /\ pc[p] = "save"
     /\ clock < MaxClock
     /\ clock' = clock + 1
     /\ orders' = [orders EXCEPT ![o] =
                     OrderPreSave([@ EXCEPT !.status = loc[p].loadedStatus],
                                  MarkPaid(@, loc[p].intent, clock + 1))]
     /\ pc' = [pc EXCEPT ![p] = "done"]
     /\ loc' = [loc EXCEPT ![p] = PayIdle]
     /\ resp' = "ok"
     /\ UNCHANGED <<products, carts, intents, emitted, refundCalls>>

\* what the stripe-signature header of a webhook request can be
Signatures == {"valid", "invalid", "missing"}

\* the cases of handleWebhook that look the order up with
\* Order.findById(paymentIntent.metadata.orderId)
IntentCases ==
  {"payment_intent.succeeded", "payment_intent.payment_failed", "payment_intent.canceled"}

\* handleWebhook: a request without signature is turned down (line 210), one whose
\* signature does not verify throws in constructWebhookEvent; an event that
\* verifies is one the provider has sent.  Whatever is thrown inside the try
\* block is answered with 400 (lines 296-302); Order.findById throws for the
\* metadata orderId 'pending', which is no ObjectId.
HandleWebhook(signature, type, i) ==
  /\ UNCHANGED <<products, carts, pc, loc, intents, emitted, refundCalls>>
  /\ IF signature = "missing"
     THEN /\ resp' = "MissingSignature"
          /\ UNCHANGED <<orders, clock>>
     ELSE IF signature = "invalid"
     THEN /\ resp' = "WebhookError"
          /\ UNCHANGED <<orders, clock>>
     ELSE /\ <<type, i>> \in emitted
          /\ IF type \in IntentCases /\ intents[i].orderId = 0
             THEN /\ resp' = "WebhookError"
                  /\ UNCHANGED <<orders, clock>>
             ELSE /\ resp' = "received"
                  /\ IF type = "payment_intent.succeeded" THEN WebhookSucceeded(i)
                     ELSE IF type \in {"payment_intent.payment_failed",
                                       "payment_intent.canceled"}
                       THEN WebhookFailed(i)
                     ELSE IF type = "charge.refunded" THEN WebhookRefunded(i)
                     ELSE UNCHANGED <<orders, clock>>

\* what the provider's refunds.create can answer: a refund that succeeded, a
\* refund object in another state (pending, failed), or an error
RefundOutcomes == {"succeeded", "pending", "error"}

\* a createRefund without the test of lines 329-331
CreateRefundUnguarded(o, outcome) ==
  /\ UNCHANGED <<products, carts, pc, loc, intents, clock>>
  /\ IF orders[o].payment.transactionId = None
     THEN /\ resp' = "NoPaymentTransaction"
          /\ UNCHANGED <<orders, emitted, refundCalls>>
     ELSE /\ refundCalls < MaxRefundCalls
          /\ refundCalls' = refundCalls + 1
          /\ IF outcome # "error"
             THEN /\ emitted' = IF outcome = "succeeded"
                                THEN emitted \cup
                                  {<<"charge.refunded", orders[o].payment.transactionId>>}
                                ELSE emitted
                  /\ orders' = [orders EXCEPT ![o] = OrderPreSave(@, Refunded(@))]
                  /\ resp' = "ok"
             ELSE /\ resp' = "RefundFailed"
                  /\ UNCHANGED <<orders, emitted>>

\* createRefund; outcome is the provider's answer to refunds.create.  The handler
\* marks the order refunded for every refund object returned (lines 335-344).
CreateRefund(o, outcome) ==
  /\ UNCHANGED <<products, carts, pc, loc, intents, clock>>
  /\ IF orders[o].payment.transactionId = None
     THEN /\ resp' = "NoPaymentTransaction"
          /\ UNCHANGED <<orders, emitted, refundCalls>>
     ELSE IF orders[o].payment.status = "refunded"
     THEN /\ resp' = "AlreadyRefunded"
          /\ UNCHANGED <<orders, emitted, refundCalls>>
     ELSE /\ refundCalls < MaxRefundCalls
          /\ refundCalls' = refundCalls + 1
          /\ IF outcome # "error"
             THEN /\ emitted' = IF outcome = "succeeded"
                                THEN emitted \cup
                                  {<<"charge.refunded", orders[o].payment.transactionId>>}
                                ELSE emitted
                  /\ orders' = [orders EXCEPT ![o] =
                                  OrderPreSave(@, Refunded(@))]
                  /\ resp' = "ok"
             ELSE /\ resp' = "RefundFailed"
                  /\ UNCHANGED <<orders, emitted>>

(***************************************************************************)
(* Specifications.                                                         *)
(***************************************************************************)
NoIntent == [exists |-> FALSE, orderId |-> 0, amount |-> 0, status |-> None]

Init ==
  /\ products = [p \in Products |-> InitProduct(p)]
  /\ carts = [k \in CartKeys |-> NoCart]
  /\ orders = <<>>
  /\ pc = [p \in Procs \cup PayProcs |-> "idle"]
  /\ loc = [p \in Procs \cup PayProcs |-> IF p \in Procs THEN IdleLoc ELSE PayIdle]
  /\ intents = [i \in IntentIds |-> NoIntent]
  /\ emitted = {}
  /\ refundCalls = 0
  /\ clock = 0
  /\ resp = None

Statuses == {"pending", "processing", "shipped", "delivered", "cancelled", "refunded"}
EventTypes == {"payment_intent.succeeded", "payment_intent.payment_failed",
               "payment_intent.canceled", "charge.refunded"}

\* the steps of the createOrder request p
CheckoutSteps(p) ==
  \/ CreateOrderCheck(p)
  \/ CreateOrderNumber(p)
  \/ CreateOrderCreate(p)
  \/ CreateOrderDecRead(p)
  \/ CreateOrderDecSave(p)
  \/ CreateOrderClear(p)

\* the requests that settle orders: status updates, payment, provider events, refunds
Settlement ==
  \/ \E o \in 1..Len(orders), status \in Statuses :
       /\ Len(orders[o].statusHistory) < MaxHistory
       /\ UpdateOrderStatus(o, status)
  \/ \E o \in 1..Len(orders) :
       /\ Cardinality({i \in IntentIds : intents[i].exists}) < MaxIntents
       /\ CreatePaymentIntent("u1", orders[o].total, o)
  \/ \E i \in IntentIds : ProviderPaymentFailed(i)
  \/ \E i \in IntentIds : ProviderPaymentSucceeded(i)
  \/ \E i \in IntentIds : ProviderPaymentCanceled(i)
  \/ \E i \in IntentIds, o \in 1..Len(orders) : ConfirmPayment("u1", i, o)
  \/ \E type \in EventTypes, i \in IntentIds : HandleWebhook("valid", type, i)
  \/ \E o \in 1..Len(orders), outcome \in RefundOutcomes : CreateRefund(o, outcome)

\* One customer's order from cart to settlement: a cart of up to two lines is
\* checked out once, then paid, updated and refunded.
Next ==
  \/ AddItemToCart("u1", "p1", MaxQty, None)
  \/ AddItemToCart("u1", "p2", MaxQty, "v1")
  \/ CreateOrderLoad("r1", "u1", "u1", 0)
  \/ CheckoutSteps("r1")
  \/ Settlement

Spec == Init /\ [][Next]_vars

\* The same with the catalog changing under the order: the product is repriced
\* and deleted, the cart is refilled and discounted.
NextCatalog ==
  \/ AddItemToCart("u1", "p1", MaxQty, None)
  \/ ApplyDiscount("u1", "FLAT5")
  \/ CreateOrderLoad("r1", "u1", "u1", 599)
  \/ CheckoutSteps("r1")
  \/ Settlement
  \/ UpdateProductPrice("p1", 1500)
  \/ DeleteProduct("p1")

SpecCatalog == Init /\ [][NextCatalog]_vars

\* Spec with the scheduling the server gives: a createOrder request that has
\* started runs on to its answer.  Requests of customers, of the administrator and
\* of the provider arrive or not; the source holds no timer or scheduled job.
SpecLive == Spec /\ WF_vars(CheckoutSteps("r1"))

\* Pricing: a cart is filled, discounted and given a shipping method, then checked
\* out by a request that carries its own shippingMethod object.
NextPricing ==
  \/ \E productId \in Products, quantity \in 1..MaxQty, variantId \in VariantIds \cup {None} :
       AddItemToCart("u1", productId, quantity, variantId)
  \/ \E code \in {"FLAT5", "WELCOME10", "EXPIRED"} : ApplyDiscount("u1", code)
  \/ \E methodId \in {"standard", "free", "pickup"} : SetShippingMethod("u1", methodId)
  \/ \E sp \in {0, 599} : CreateOrderLoad("r1", "u1", "u1", sp)
  \/ CheckoutSteps("r1")

SpecPricing == Init /\ [][NextPricing]_vars

\* The cart of one customer under every cart request, while the administrator
\* changes the stock and the price of a product the cart holds.
NextCart ==
  \/ \E productId \in Products, quantity \in 1..MaxQty, variantId \in VariantIds \cup {None} :
       AddItemToCart("u1", productId, quantity, variantId)
  \/ \E idx \in 1..MaxLines, quantity \in 0..InitStock : UpdateCartItem("u1", idx, quantity)
  \/ \E idx \in 1..MaxLines : RemoveCartItem("u1", idx)
  \/ ClearCart("u1")
  \/ \E code \in {"FLAT5", "WELCOME10", "EXPIRED"} : ApplyDiscount("u1", code)
  \/ \E methodId \in {"standard", "free", "pickup"} : SetShippingMethod("u1", methodId)
  \/ \E inventory \in {1, InitStock} : UpdateProductInventory("p1", inventory)
  \/ \E price \in {1000, 1500} : UpdateProductPrice("p1", price)

SpecCart == Init /\ [][NextCart]_vars

\* Webhook deliveries: intents are created for an order or without one, the
\* provider sends events of every type, and webhook requests arrive with and
\* without a signature that verifies.
NextWebhook ==
  \/ AddItemToCart("u1", "p1", MaxQty, None)
  \/ CreateOrderLoad("r1", "u1", "u1", 0)
  \/ CheckoutSteps("r1")
  \/ \E o \in 0..Len(orders) :
       /\ Cardinality({i \in IntentIds : intents[i].exists}) < MaxIntents
       /\ CreatePaymentIntent("u1", 1000, o)
  \/ \E i \in IntentIds : ProviderPaymentFailed(i)
  \/ \E i \in IntentIds : ProviderPaymentSucceeded(i)
  \/ \E i \in IntentIds : ProviderPaymentCanceled(i)
  \/ \E i \in IntentIds : ProviderOtherEvent(i)
  \/ \E i \in IntentIds, o \in 1..Len(orders) : ConfirmPayment("u1", i, o)
  \/ \E signature \in Signatures, type \in EventTypes \cup {"payment_intent.created"},
        i \in IntentIds : HandleWebhook(signature, type, i)
  \/ \E o \in 1..Len(orders), outcome \in RefundOutcomes : CreateRefund(o, outcome)

SpecWebhook == Init /\ [][NextWebhook]_vars

\* Concurrent checkouts: carts are filled, two createOrder requests run step by
\* step, and the administrator retires products.
NextCheckout ==
  \/ \E u \in Users, productId \in Products, variantId \in VariantIds \cup {None} :
       AddItemToCart(u, productId, MaxQty, variantId)
  \/ \E p \in Procs, u \in Users, c \in Users : CreateOrderLoad(p, u, c, 0)
  \/ \E p \in Procs : CheckoutSteps(p)
  \/ UpdateProductActive("p1", FALSE)
  \/ DeleteProduct("p2")

SpecCheckout == Init /\ [][NextCheckout]_vars

\* Payments of one customer with two orders: the customer checks out twice, one
\* request after the other,
\* creates an intent for either order with an amount of their choosing, pays, and
\* confirms any order with any intent; the administrator refunds.
NextPayment ==
  \/ AddItemToCart("u1", "p1", 1, None)
  \/ CreateOrderLoad("r1", "u1", "u1", 0)
  \/ pc["r1"] = "done" /\ CreateOrderLoad("r2", "u1", "u1", 0)
  \/ \E p \in Procs : CheckoutSteps(p)
  \/ \E o \in 1..Len(orders), amount \in {500, 1000} :
       /\ Cardinality({i \in IntentIds : intents[i].exists}) < MaxIntents
       /\ CreatePaymentIntent("u1", amount, o)
  \/ \E i \in IntentIds : ProviderPaymentSucceeded(i)
  \/ \E i \in IntentIds, o \in 1..Len(orders) : ConfirmPayment("u1", i, o)
  \/ \E i \in IntentIds :
       HandleWebhook("valid", "payment_intent.succeeded", i)
  \/ \E i \in IntentIds : HandleWebhook("valid", "charge.refunded", i)
  \/ \E o \in 1..Len(orders) : CreateRefund(o, "succeeded")

SpecPayment == Init /\ [][NextPayment]_vars

\* Guest and customer carts: a guest and a logged-in customer fill, discount and
\* ship their carts, the administrator changes a product's stock, and the
\* customer merges the guest's cart into their own.
NextGuest ==
  \/ \E k \in {"u1", "s1"} : GetCart(k)
  \/ \E k \in {"u1", "s1"}, productId \in Products, quantity \in 1..MaxQty,
        variantId \in VariantIds \cup {None} : AddItemToCart(k, productId, quantity, variantId)
  \/ \E code \in {"FLAT5", "EXPIRED"} : ApplyDiscount("s1", code)
  \/ \E methodId \in {"standard", "pickup"} : SetShippingMethod("s1", methodId)
  \/ ClearCart("s1")
  \/ \E inventory \in {1, InitStock} : UpdateProductInventory("p1", inventory)
  \/ MergeCart("u1", "s1")

SpecGuest == Init /\ [][NextGuest]_vars

\* Concurrent payment requests: an order is created and paid at the provider,
\* and two requests, each a confirmPayment or a delivery of the
\* payment_intent.succeeded event, run step by step.
NextConcurrentPay ==
  \/ AddItemToCart("u1", "p1", MaxQty, None)
  \/ CreateOrderLoad("r1", "u1", "u1", 0)
  \/ CheckoutSteps("r1")
  \/ \E o \in 1..Len(orders) :
       /\ Cardinality({i \in IntentIds : intents[i].exists}) < MaxIntents
       /\ CreatePaymentIntent("u1", orders[o].total, o)
  \/ \E i \in IntentIds : ProviderPaymentSucceeded(i)
  \/ \E p \in PayProcs, i \in IntentIds, o \in 1..Len(orders) :
       ConfirmPaymentLoad(p, "u1", i, o)
  \/ \E p \in PayProcs, i \in IntentIds : WebhookSucceededLoad(p, i)
  \/ \E p \in PayProcs : PaymentSave(p)

SpecConcurrentPay == Init /\ [][NextConcurrentPay]_vars

\* the sequence numbers the period's latest order can have when the run starts:
\* the first ones, and the last ones that fit the padded width
FirstNumbers == (1..20) \cup (99980..99999)

\* A period that already has orders: the collection holds the period's latest
\* order (the earlier ones, with smaller numbers, are left out).
InitNumbers ==
  /\ products = [p \in Products |-> InitProduct(p)]
  /\ carts = [k \in CartKeys |-> NoCart]
  /\ \E n \in FirstNumbers :
       orders = <<NewOrder(PadStart(Digits(n), PadWidth), "u2",
                           CartAddItem(NewCart("u2"), "p1", 1, None).cart, 0)>>
  /\ pc = [p \in Procs \cup PayProcs |-> "idle"]
  /\ loc = [p \in Procs \cup PayProcs |-> IF p \in Procs THEN IdleLoc ELSE PayIdle]
  /\ intents = [i \in IntentIds |-> NoIntent]
  /\ emitted = {}
  /\ refundCalls = 0
  /\ clock = 0
  /\ resp = None

\* Sequential checkouts in such a period: one createOrder request runs to its
\* answer, then the next.
NextNumbers ==
  \/ AddItemToCart("u1", "p1", 1, None)
  \/ CreateOrderLoad("r1", "u1", "u1", 0)
  \/ pc["r1"] = "done" /\ CreateOrderLoad("r2", "u1", "u1", 0)
  \/ \E p \in Procs : CheckoutSteps(p)

SpecNumbers == InitNumbers /\ [][NextNumbers]_vars

(***************************************************************************)
(* Properties.                                                             *)
(***************************************************************************)
\* the quantity order o holds of the stock counter (productId, variantId)
OrderedQuantity(o, productId, variantId) ==
  SumSeq([k \in 1..Len(orders[o].items) |->
            IF orders[o].items[k].product = productId /\ orders[o].items[k].variant = variantId
            THEN orders[o].items[k].quantity ELSE 0])

\* the quantity request p sold of a counter: its order's, once it answered 201
SoldBy(p, productId, variantId) ==
  IF pc[p] = "done" /\ loc[p].result = "ok"
  THEN OrderedQuantity(loc[p].order, productId, variantId) ELSE 0

\* the value a stock counter starts with
StockAtStart(productId, variantId) ==
  IF variantId = None THEN InitProduct(productId).inventory
  ELSE IF variantId \in DOMAIN InitProduct(productId).variants
    THEN InitProduct(productId).variants[variantId].inventory
  ELSE 0

\* C1: whatever the interleaving of concurrent createOrder requests, the quantities
\* of a stock counter in the orders of the requests that succeeded add up to at
\* most the counter's stock as long as the product is in the catalog, and no
\* counter goes below 0 (two checkouts that together ask for more than the stock
\* do not both succeed).
C1_NoOversell ==
  /\ \A productId \in Products, variantId \in VariantIds \cup {None} :
       products[productId].exists =>
         SoldBy("r1", productId, variantId) + SoldBy("r2", productId, variantId)
           <= StockAtStart(productId, variantId)
  /\ \A productId \in Products : ProductValid(products[productId])

\* the number of 'processing' entries in an order's status history
ProcessingEntries(order) ==
  Cardinality({k \in 1..Len(order.statusHistory) :
                 order.statusHistory[k].status = "processing"})

\* C2: payment confirmation is idempotent: confirmPayment, or a delivery of
\* payment_intent.succeeded, applied to an order whose payment is already
\* completed answers success and changes neither the order (status history,
\* paidAt, transactionId) nor any stock; applied to an order not yet paid it
\* completes the payment, adds at most one 'processing' entry and touches no stock.
C2_ConfirmIdempotent ==
  [][\A o \in 1..Len(orders), i \in IntentIds :
       LET confirm == ConfirmPayment("u1", i, o) /\ resp' = "ok"
           webhook == HandleWebhook("valid", "payment_intent.succeeded", i)
                        /\ intents[i].orderId = o
       IN (confirm \/ webhook) =>
            /\ products' = products
            /\ resp' \in {"ok", "received"}
            /\ IF orders[o].payment.status = "completed"
               THEN orders' = orders
               ELSE /\ orders'[o].payment.status = "completed"
                    /\ orders'[o].payment.transactionId = i
                    /\ ProcessingEntries(orders'[o]) =
                         ProcessingEntries(orders[o])
                           + (IF orders[o].status = "processing" THEN 0 ELSE 1)]_vars

\* a payment_intent.succeeded event was delivered to an order that was paid and
\* has since been shipped: the order is still shipped, paid once
C2_Witness ==
  \E o \in 1..Len(orders) :
    /\ orders[o].payment.status = "completed"
    /\ orders[o].payment.paidAt = 1
    /\ orders[o].status = "shipped"
    /\ ProcessingEntries(orders[o]) = 1
    /\ <<"payment_intent.succeeded", orders[o].payment.transactionId>> \in emitted
    /\ resp = "received"

\* C3: a status update to cancelled of an order that is not cancelled puts every
\* line's quantity back on its product's (or variant's) stock, and one of an order
\* that is already cancelled leaves the stock as it is.
C3_CancelRestoresStock ==
  [][\A o \in 1..Len(orders) :
       UpdateOrderStatus(o, "cancelled") =>
         products' = IF orders[o].status # "cancelled"
                     THEN RestoreInventory(products, orders[o].items)
                     ELSE products]_vars

\* C4: every order's total is its subtotal less its discount plus its tax plus its
\* shipping cost, from creation on.
C4_TotalIdentity ==
  \A o \in 1..Len(orders) :
    orders[o].total = orders[o].subtotal
                        - DiscountAmount(orders[o].discount, orders[o].subtotal)
                        + orders[o].tax.amount
                        + orders[o].shippingCost

\* the frozen part of an order: line items and totals
Snapshot(order) ==
  [items |-> order.items, subtotal |-> order.subtotal, discount |-> order.discount,
   tax |-> order.tax, shippingCost |-> order.shippingCost, total |-> order.total]

\* C5: no operation changes the line items or the frozen subtotal, discount, tax,
\* shipping cost and total of an order that exists, and none removes an order.
C5_SnapshotFrozen ==
  [][/\ Len(orders') >= Len(orders)
     /\ \A o \in 1..Len(orders) : Snapshot(orders'[o]) = Snapshot(orders[o])]_vars

\* an order was paid and refunded, its product was repriced and then deleted and
\* its cart was given a discount: the order still shows the price it was bought at
C5_Witness ==
  \E o \in 1..Len(orders) :
    /\ orders[o].status = "refunded"
    /\ orders[o].payment.paidAt # 0
    /\ ~products["p1"].exists
    /\ carts["u1"].discount # NoDiscount
    /\ orders[o].discount = NoDiscount
    /\ Len(orders[o].items) = 1
    /\ orders[o].items[1].price = InitProduct("p1").price

\* C6: createRefund of an order that is already refunded answers AlreadyRefunded,
\* calls the provider no more and leaves the order as it is; createRefund of an
\* order without a transaction id answers NoPaymentTransaction and changes
\* nothing; a createRefund that succeeds calls the provider once and marks the
\* order refunded.
C6_RefundOnce ==
  [][\A o \in 1..Len(orders), outcome \in RefundOutcomes :
       CreateRefund(o, outcome) =>
         /\ orders[o].payment.transactionId = None =>
              /\ resp' = "NoPaymentTransaction"
              /\ UNCHANGED <<orders, products, refundCalls, emitted>>
         /\ (orders[o].payment.transactionId # None
               /\ orders[o].payment.status = "refunded") =>
              /\ resp' = "AlreadyRefunded"
              /\ UNCHANGED <<orders, products, refundCalls, emitted>>
         /\ resp' = "ok" =>
              /\ refundCalls' = refundCalls + 1
              /\ orders'[o].payment.status = "refunded"
              /\ orders'[o].status = "refunded"]_vars

\* a second createRefund of a refunded order was turned down after one provider call
C6_Witness ==
  \E o \in 1..Len(orders) :
    /\ resp = "AlreadyRefunded"
    /\ refundCalls = 1
    /\ orders[o].payment.status = "refunded"
    /\ orders[o].status = "refunded"

\* C7: a cancelled or refunded order keeps its status whatever operation follows,
\* and a status update to cancelled of a delivered order answers
\* InvalidStateTransition and leaves orders and stock as they are.
C7_TerminalAbsorbing ==
  [][\A o \in 1..Len(orders) :
       /\ orders[o].status \in {"cancelled", "refunded"} =>
            orders'[o].status = orders[o].status
       /\ (orders[o].status = "delivered" /\ UpdateOrderStatus(o, "cancelled")) =>
            /\ resp' = "InvalidStateTransition"
            /\ UNCHANGED <<orders, products>>]_vars

\* C8: a payment_intent.payment_failed or payment_intent.canceled event handled
\* for an order whose payment is completed leaves payment.status completed and
\* the order's status as it is.
C8_FailedAfterSucceeded ==
  [][\A i \in IntentIds, type \in {"payment_intent.payment_failed", "payment_intent.canceled"} :
       (/\ HandleWebhook("valid", type, i)
        /\ orders[intents[i].orderId].payment.status = "completed") =>
         /\ orders'[intents[i].orderId].payment.status = "completed"
         /\ orders'[intents[i].orderId].status = orders[intents[i].orderId].status]_vars

\* C9: a createOrder request that stored its order and then failed leaves that
\* order cancelled, with every line's quantity back on the stock.
C9_NoPartialCheckout ==
  \A p \in Procs :
    (pc[p] = "done" /\ loc[p].order # 0 /\ loc[p].result # "ok") =>
      orders[loc[p].order].status = "cancelled"

\* the answers of createOrder's validation
ValidationFailures ==
  {"NotFound", "Forbidden", "EmptyCart", "ProductNotFound", "ProductUnavailable",
   "VariantNotFound", "InsufficientStock"}

\* C10: a createOrder request answers a validation failure only from its
\* validation steps, and until validation is over no step of the request creates
\* an order, changes a product or changes a cart.
C10_ValidationBeforeMutation ==
  [][\A p \in Procs :
       /\ (pc[p] # "done" /\ pc'[p] = "done" /\ loc'[p].result \in ValidationFailures) =>
            pc[p] \in {"idle", "check"}
       /\ pc'[p] = "check" => pc[p] \in {"idle", "check"}
       /\ (pc[p] \in {"idle", "check"} /\ <<pc'[p], loc'[p]>> # <<pc[p], loc[p]>>) =>
            UNCHANGED <<orders, products, carts>>]_vars

\* a checkout was turned down for stock that another checkout had taken, after
\* validating a line of its own
C10_Witness ==
  \E p \in Procs :
    /\ pc[p] = "done"
    /\ loc[p].result = "InsufficientStock"
    /\ loc[p].order = 0
    /\ Len(orders) = 1
    /\ Len(carts[loc[p].cartId].items) = MaxLines

\* the states of a createOrder request that has stored its order and not answered yet
AfterCreate == {"decRead", "decSave", "clear"}

\* C11: a cart is consumed by at most one order: the step with which a createOrder
\* request answers 201 leaves its cart empty (no lines, discount or shipping,
\* totals 0), and no two requests that loaded the same cart with the same lines
\* both store an order for it.
C11_CartConsumedOnce ==
  [][/\ \A p \in Procs :
          (pc[p] # "done" /\ pc'[p] = "done" /\ loc'[p].result = "ok") =>
            carts'[loc[p].cartId] = CartClearCart(carts'[loc[p].cartId])
     /\ \A p, q \in Procs :
          (/\ p # q
           /\ pc'[p] \in AfterCreate /\ pc'[q] \in AfterCreate
           /\ loc'[p].cartId = loc'[q].cartId) =>
            loc'[p].cart.items # loc'[q].cart.items]_vars

\* C12: no two createOrder requests hold the same order number for Order.create:
\* no request is turned down by the unique index, and no two stored orders share
\* an order number.
C12_UniqueOrderNumbers ==
  /\ \A p \in Procs : loc[p].result # "DuplicateKey"
  /\ \A p, q \in Procs :
       (p # q /\ pc[p] = "create" /\ pc[q] = "create") =>
         loc[p].orderNumber # loc[q].orderNumber
  /\ \A i, j \in 1..Len(orders) :
       i # j => orders[i].orderNumber # orders[j].orderNumber

\* C13: the checkout of a cart with a single line and no discount stores an order
\* with subtotal = price * quantity, tax = rate * subtotal, the request's shipping
\* cost and total = subtotal + tax + shipping, pending with payment pending, and
\* once it has answered 201 the line's stock counter is down by the quantity.
C13_SingleLineCheckout ==
  \A p \in Procs :
    LET o == loc[p].order
        item == orders[o].items[1]
    IN (o # 0 /\ Len(orders[o].items) = 1 /\ orders[o].discount = NoDiscount) =>
         /\ orders[o].subtotal = item.price * item.quantity
         /\ orders[o].tax.amount = (orders[o].tax.rate * orders[o].subtotal) \div 100
         /\ orders[o].total = orders[o].subtotal + orders[o].tax.amount
                                + orders[o].shippingCost
         /\ orders[o].status = "pending"
         /\ orders[o].payment.status = "pending"
         /\ (pc[p] = "done" /\ loc[p].result = "ok") =>
              LineInventory(products[item.product], item)
                = StockAtStart(item.product, item.variant) - item.quantity

\* every stock counter is back at the value it started with
StockReleased ==
  \A productId \in Products :
    /\ products[productId].inventory = InitProduct(productId).inventory
    /\ \A v \in DOMAIN products[productId].variants :
         products[productId].variants[v].inventory
           = InitProduct(productId).variants[v].inventory

\* C14: an order that is stored and not paid is eventually paid, or cancelled with
\* the stock its lines took released.
C14_UnpaidEventuallyCancelled ==
  (Len(orders) >= 1 /\ orders[1].payment.status # "completed")
    ~> (/\ Len(orders) >= 1
        /\ \/ orders[1].payment.status = "completed"
           \/ orders[1].status = "cancelled" /\ StockReleased)

\* the answers of handleWebhook with status 400
WebhookErrors == {"MissingSignature", "WebhookError"}

\* C15: handleWebhook answers 400 exactly when the signature is missing or does
\* not verify, and then changes no order; every event that verifies is answered
\* with {received: true}.
C15_WebhookAcknowledged ==
  [][\A signature \in Signatures, type \in EventTypes \cup {"payment_intent.created"},
        i \in IntentIds :
       HandleWebhook(signature, type, i) =>
         /\ resp' \in WebhookErrors <=> signature # "valid"
         /\ signature = "valid" => resp' = "received"
         /\ signature # "valid" => UNCHANGED <<orders, products>>]_vars

\* C16: createRefund marks an order refunded only for a refund the provider
\* reports as succeeded: when the provider's call fails or returns a refund in
\* another state, the order's payment.status and status stay as they are.
C16_RefundOnlyWhenConfirmed ==
  [][\A o \in 1..Len(orders), outcome \in RefundOutcomes :
       (CreateRefund(o, outcome) /\ outcome # "succeeded") =>
         /\ orders'[o].payment.status = orders[o].payment.status
         /\ orders'[o].status = orders[o].status]_vars

\* the totals a cart must store for the lines, discount, tax and shipping it holds
TotalsConsistent(cart) ==
  LET subtotal == SumSeq([k \in 1..Len(cart.items) |-> cart.items[k].subtotal])
      discountAmount == IF cart.discount.type = "percentage"
                          THEN (subtotal * cart.discount.value) \div 100
                        ELSE IF cart.discount.type = "fixed"
                          THEN (IF cart.discount.value < subtotal
                                THEN cart.discount.value ELSE subtotal)
                        ELSE 0
      taxAmount == IF cart.tax.set
                   THEN ((subtotal - discountAmount) * cart.tax.rate) \div 100 ELSE 0
      shippingCost == IF cart.shippingMethod.id # None THEN cart.shippingMethod.price ELSE 0
  IN /\ cart.subtotal = subtotal
     /\ cart.tax.amount = taxAmount
     /\ cart.total = subtotal - discountAmount + taxAmount + shippingCost
     /\ cart.total >= 0

\* C17: every stored cart holds the totals of its lines: subtotal = sum of the
\* line subtotals, total = subtotal - discount amount (subtotal * value for a
\* percentage, min(value, subtotal) for a fixed discount) + tax amount + price of
\* the selected shipping method, and total >= 0.
C17_CartTotals ==
  \A u \in Users : carts[u].exists => TotalsConsistent(carts[u])

\* a cart of two lines, one of them with a quantity only updateItemQuantity or a
\* merging addItem gives, with a percentage discount and a paid shipping method
C17_Witness ==
  /\ carts["u1"].exists
  /\ Len(carts["u1"].items) = 2
  /\ \E k \in 1..2 : carts["u1"].items[k].quantity = InitStock
  /\ carts["u1"].discount.type = "percentage"
  /\ carts["u1"].shippingMethod.id = "standard"
  /\ carts["u1"].total > carts["u1"].subtotal

\* the quantity a cart holds of one product+variant pair, over all its lines
HeldQuantity(cart, productId, variant) ==
  SumSeq([k \in 1..Len(cart.items) |->
            IF cart.items[k].product = productId /\ cart.items[k].variant = variant
            THEN cart.items[k].quantity ELSE 0])

\* C18: after an addItem the cart holds at most one line per product+variant
\* pair, and when the add changed the cart, the quantity the cart holds of the
\* added pair is at most the stock that add read.
C18_OneLinePerPair ==
  [][\A productId \in Products, quantity \in 1..MaxQty, variantId \in VariantIds \cup {None} :
       AddItemToCart("u1", productId, quantity, variantId) =>
         LET cart == carts'["u1"]
             variant == IF products[productId].hasVariants THEN variantId ELSE None
             stock == IF variant # None THEN products[productId].variants[variant].inventory
                      ELSE products[productId].inventory
         IN /\ \A i, j \in 1..Len(cart.items) :
                 i # j => ~(/\ cart.items[i].product = cart.items[j].product
                            /\ cart.items[i].variant = cart.items[j].variant)
            /\ carts' # carts => HeldQuantity(cart, productId, variant) <= stock]_vars

\* C19: updateItemQuantity with quantity <= 0 removes the line, and an update
\* to a quantity >= 1 that exceeds the product's current stock leaves the cart
\* unchanged.
C19_UpdateRevalidates ==
  [][\A idx \in 1..MaxLines, quantity \in 0..InitStock :
       (/\ UpdateCartItem("u1", idx, quantity)
        /\ carts["u1"].exists
        /\ idx <= Len(carts["u1"].items)) =>
         LET cart == carts["u1"]
             item == cart.items[idx]
             stock == IF item.variant # None
                      THEN products[item.product].variants[item.variant].inventory
                      ELSE products[item.product].inventory
         IN /\ CartUpdateItemQuantity(cart, idx, 0).cart.items
                 = SubSeq(cart.items, 1, idx - 1) \o SubSeq(cart.items, idx + 1, Len(cart.items))
            /\ (quantity >= 1 /\ quantity > stock) => carts' = carts]_vars

\* C20: the status history is an append-only log of the status: its first
\* entry, and only that one, is 'Order created'; a step that changes an order's
\* status appends exactly one entry with the new status and leaves the earlier
\* entries as they were; a step that keeps the status keeps the history; and
\* the last entry's status is the order's status.
C20_HistoryAppendOnly ==
  [][\A o \in 1..Len(orders') :
       LET new == orders'[o]
           n == Len(new.statusHistory)
       IN /\ n >= 1
          /\ new.statusHistory[1].note = "Order created"
          /\ \A k \in 2..n : new.statusHistory[k].note # "Order created"
          /\ new.statusHistory[n].status = new.status
          /\ o <= Len(orders) =>
               IF new.status # orders[o].status
               THEN /\ n = Len(orders[o].statusHistory) + 1
                    /\ SubSeq(new.statusHistory, 1, n - 1) = orders[o].statusHistory
               ELSE new.statusHistory = orders[o].statusHistory]_vars

\* an order that was paid and then refunded: three entries, the last one its status
C20_Witness ==
  \E o \in 1..Len(orders) :
    /\ Len(orders[o].statusHistory) = 3
    /\ orders[o].statusHistory[2].status = "processing"
    /\ orders[o].statusHistory[3].status = "refunded"
    /\ orders[o].status = "refunded"

\* the position of a payment status in the lifecycle
\* pending -> processing -> completed | failed, completed -> refunded
PaymentRank(status) ==
  CASE status = "pending" -> 0
    [] status = "processing" -> 1
    [] status \in {"completed", "failed"} -> 2
    [] status = "refunded" -> 3

\* C21: an order's payment.status never returns to an earlier state of the
\* lifecycle, never leaves refunded, and becomes refunded only from completed.
C21_PaymentLifecycle ==
  [][\A o \in 1..Len(orders) :
       LET old == orders[o].payment.status
           new == orders'[o].payment.status
       IN /\ PaymentRank(new) >= PaymentRank(old)
          /\ old = "refunded" => new = "refunded"
          /\ (new = "refunded" /\ old # "refunded") => old = "completed"]_vars

\* C22: no two orders hold the same payment.transactionId.
C22_UniqueTransactionId ==
  \A o1, o2 \in 1..Len(orders) :
    (o1 # o2 /\ orders[o1].payment.transactionId # None) =>
      orders[o1].payment.transactionId # orders[o2].payment.transactionId

\* C30: a step that makes an order's payment completed does so with an intent
\* that was created for that order and for the order's total, and every
\* order's payment.amount equals its total.
C30_PaidByOwnIntent ==
  [][\A o \in 1..Len(orders) :
       /\ (orders[o].payment.status # "completed"
           /\ orders'[o].payment.status = "completed") =>
            LET i == orders'[o].payment.transactionId
            IN /\ i \in IntentIds
               /\ intents[i].exists
               /\ intents[i].orderId = o
               /\ intents[i].amount = orders[o].total
       /\ orders'[o].payment.amount = orders'[o].total]_vars

\* C23: every stored cart carries exactly one of customer and sessionId, the one
\* it is found by.
C23_CartIdentity ==
  \A k \in CartKeys :
    carts[k].exists =>
      /\ (carts[k].customer # None) # (carts[k].sessionId # None)
      /\ k \in Users => carts[k].customer = k
      /\ k \in Sessions => carts[k].sessionId = k

\* after a merge into the customer's cart, the guest has a cart again
C23_Witness ==
  /\ resp = "merged"
  /\ carts["u1"].exists /\ Len(carts["u1"].items) > 0
  /\ carts["s1"].exists /\ Len(carts["s1"].items) > 0

\* the stock counter of a product+variant pair
PairStock(productId, variant) ==
  IF variant # None THEN products[productId].variants[variant].inventory
  ELSE products[productId].inventory

C24_FailedWebhookFrame ==
  [][\A type \in {"payment_intent.payment_failed", "payment_intent.canceled"},
        i \in IntentIds :
       (/\ HandleWebhook("valid", type, i)
        /\ intents[i].orderId # 0
        /\ orders[intents[i].orderId].payment.status # "completed") =>
         /\ orders' = [orders EXCEPT ![intents[i].orderId].payment.status = "failed"]
         /\ products' = products
         /\ carts' = carts]_vars

\* an unpaid order whose payment failed: still pending, one history entry, and
\* the stock it took still taken
C24_Witness ==
  \E o \in 1..Len(orders) :
    /\ orders[o].payment.status = "failed"
    /\ orders[o].status = "pending"
    /\ Len(orders[o].statusHistory) = 1
    /\ products["p1"].inventory < InitStock

\* C26: however the load and save steps of two payment requests for one order
\* interleave, the order never has more than one 'processing' entry, and once
\* its payment is completed its status is processing with exactly one such entry.
C26_ConcurrentConfirm ==
  \A o \in 1..Len(orders) :
    /\ ProcessingEntries(orders[o]) <= 1
    /\ orders[o].payment.status = "completed" =>
         /\ orders[o].status = "processing"
         /\ ProcessingEntries(orders[o]) = 1

\* C27: in a sequential run, the number generateOrderNumber returned to a
\* request has a sequence equal to the largest sequence among the stored orders
\* plus one, greater than every stored order's sequence.
C27_MonotoneOrderNumbers ==
  \A p \in Procs :
    pc[p] = "create" =>
      LET n == ParseInt(loc[p].orderNumber)
      IN /\ \A i \in 1..Len(orders) : n > ParseInt(orders[i].orderNumber)
         /\ \E i \in 1..Len(orders) : n = ParseInt(orders[i].orderNumber) + 1

\* C28: an addItem that merges into an existing line leaves that line with the
\* current catalog price as unit price and subtotal = that price * the merged
\* quantity; and every line of the cart has quantity >= 1 and
\* subtotal = unit price * quantity.
C28_MergeRefreshesPrice ==
  [][\A productId \in Products, quantity \in 1..MaxQty, variantId \in VariantIds \cup {None} :
       (/\ AddItemToCart("u1", productId, quantity, variantId)
        /\ carts["u1"].exists
        /\ carts'["u1"] # carts["u1"]) =>
         LET old == carts["u1"].items
             new == carts'["u1"].items
         IN /\ Len(new) = Len(old) =>
                 \A k \in 1..Len(new) :
                   new[k] # old[k] =>
                     LET price == IF new[k].variant # None
                                  THEN products[productId].variants[new[k].variant].price
                                  ELSE products[productId].price
                     IN /\ new[k].quantity = old[k].quantity + quantity
                        /\ new[k].price = price
                        /\ new[k].subtotal = price * new[k].quantity
            /\ \A k \in 1..Len(new) :
                 /\ new[k].quantity >= 1
                 /\ new[k].subtotal = new[k].price * new[k].quantity]_vars

\* what a stock counter holds now
StockNow(productId, variantId) ==
  IF variantId = None THEN products[productId].inventory
  ELSE IF variantId \in DOMAIN products[productId].variants
    THEN products[productId].variants[variantId].inventory
  ELSE 0

\* the quantity the orders that are not cancelled hold of a stock counter
CommittedQuantity(productId, variantId) ==
  SumSeq([o \in 1..Len(orders) |->
            IF orders[o].status # "cancelled"
            THEN OrderedQuantity(o, productId, variantId) ELSE 0])

\* C29: when no checkout is under way, each stock counter plus the quantities
\* the orders that are not cancelled hold of it equals the counter's initial
\* stock.
C29_StockConservation ==
  (\A p \in Procs : pc[p] \in {"idle", "done"}) =>
    \A productId \in Products, variantId \in VariantIds \cup {None} :
      StockNow(productId, variantId) + CommittedQuantity(productId, variantId)
        = StockAtStart(productId, variantId)

====
